---- MODULE Spec2Model ----
(***************************************************************************)
(* Mergington High School activities page: the client renderer of          *)
(* src/static/app.js (list view, activity select, signup form, message     *)
(* area with its hide timers) together with the Activity Directory it      *)
(* talks to (GET /activities, POST /activities/{name}/signup).             *)
(*                                                                         *)
(* Every request of the client is a record in `requests`.  Its pc says how *)
(* far the exchange is: "sent" (the directory has not handled it),         *)
(* "checked" (a signup between its checks and its append), "answered" (the *)
(* directory's response is on its way).  The async function that issued it *)
(* is suspended at `await fetch(...)` and then at `await response.json()`; *)
(* no statement runs between the two awaits, so it resumes in one step.    *)
(*                                                                         *)
(* All timers have the same delay, so they expire in the order they were   *)
(* set: `timers` is that queue, and how much time passes between two       *)
(* events is left open.  Timers set in the same synchronous step expire at *)
(* the same instant; they are one entry of the queue, which counts the     *)
(* callbacks set (`set`) and those that have not run yet (`left`).         *)
(***************************************************************************)
EXTENDS Integers, Sequences, FiniteSets, TLC

\* Number of form submits a behaviour may contain.
MaxSubmits == 2

\* Delay of every hide timer, in milliseconds.
HideDelay == 5000

\* Keys of the directory, in the order the JSON snapshot lists them.
ActivityNames == <<"Chess Club", "Gym Class">>

NameSet == {ActivityNames[i] : i \in DOMAIN ActivityNames}

Emails == {"ada@mergington.edu"}

\* The directory at process start: every activity without participants.
Seeded == [n \in NameSet |-> <<>>]

VARIABLES
    participants,   \* server: activity name -> sequence of emails
    requests,       \* requests of the client that have not been handled yet
    nextAction,     \* number of submits so far; a submit's id is its rank
    activities,     \* client: `let activities`
    listView,       \* children of #activities-list
    options,        \* options of #activity after the placeholder option
    formEmail,      \* value of #email
    formActivity,   \* value of #activity
    messageDiv,     \* #message: textContent, className, hidden
    timers,         \* pending hide timers, oldest first
    console         \* messages written with console.error

vars == <<participants, requests, nextAction, activities, listView, options,
          formEmail, formActivity, messageDiv, timers, console>>

serverVars == <<participants>>
pageVars == <<activities, listView, options>>
formVars == <<formEmail, formActivity>>
msgVars == <<messageDiv, timers>>

Count(x, s) == Cardinality({i \in DOMAIN s : s[i] = x})

----------------------------------------------------------------------------
\* DOM content

LoadingP == [kind |-> "loading", name |-> "", participants |-> <<>>]

FailedP == [kind |-> "failed", name |-> "", participants |-> <<>>]

Card(name, emails) == [kind |-> "card", name |-> name, participants |-> emails]

\* The forEach of fetchActivities from entry i on: one card and one option
\* per entry, appended to what the two elements hold.
RECURSIVE renderFrom(_, _, _)
renderFrom(view, snap, i) ==
    IF i > Len(ActivityNames) THEN view
    ELSE renderFrom([list   |-> Append(view.list,
                                       Card(ActivityNames[i], snap[ActivityNames[i]])),
                     select |-> Append(view.select, ActivityNames[i])],
                    snap, i + 1)

\* Bug variant: the list view is not cleared before rendering.
renderActivitiesNoClear(list, select, snap) ==
    renderFrom([list |-> list, select |-> select], snap, 1)

\* fetchActivities after a parsed snapshot: clears the list view, renders.
renderActivities(list, select, snap) ==
    renderFrom([list |-> <<>>, select |-> select], snap, 1)

----------------------------------------------------------------------------
\* Message area

\* setTimeout(() => messageDiv.classList.add("hidden"), 5000)
HideTimer == [delay |-> HideDelay, set |-> 1, left |-> 1]

\* showMessage(text, type): content, class, visible, and a new hide timer.
showMessage(div, ts, text, type) ==
    [div    |-> [textContent |-> text, className |-> type, hidden |-> FALSE],
     timers |-> Append(ts, HideTimer)]

\* The submit handler after its if/else, in the step that called
\* showMessage: classList.remove("hidden") and a second setTimeout.
showAgain(m) ==
    [div    |-> [m.div EXCEPT !.hidden = FALSE],
     timers |-> [m.timers EXCEPT ![Len(m.timers)] =
                     [@ EXCEPT !.set = @ + 1, !.left = @ + 1]]]

----------------------------------------------------------------------------
\* Requests

Req(origin, kind, activity, email) ==
    [origin |-> origin, kind |-> kind, pc |-> "sent", activity |-> activity,
     email |-> email, status |-> 0, snap |-> Seeded]

\* fetchActivities() up to its first await: the GET it issues.
fetchActivities(origin) == Req(origin, "GET", "", "")

Respond(r, status, snap) ==
    [r EXCEPT !.pc = "answered", !.status = status, !.snap = snap]

Init ==
    /\ participants = Seeded
    /\ requests = {fetchActivities(0)}
    /\ nextAction = 0
    /\ activities = [kind |-> "empty", snap |-> Seeded]
    /\ listView = <<LoadingP>>
    /\ options = <<>>
    /\ formEmail = ""
    /\ formActivity = ""
    /\ messageDiv = [textContent |-> "", className |-> "", hidden |-> TRUE]
    /\ timers = <<>>
    /\ console = {}

----------------------------------------------------------------------------
\* User

TypeEmail(e) ==
    /\ formEmail # e
    /\ formEmail' = e
    /\ UNCHANGED <<serverVars, requests, nextAction, pageVars, formActivity,
                   msgVars, console>>

SelectActivity(a) ==
    /\ formActivity # a
    /\ a = "" \/ Count(a, options) > 0
    /\ formActivity' = a
    /\ UNCHANGED <<serverVars, requests, nextAction, pageVars, formEmail,
                   msgVars, console>>

\* Bug variant: no check of the two fields.
SubmitWithoutValidation ==
    /\ nextAction < MaxSubmits
    /\ nextAction' = nextAction + 1
    /\ requests' = requests \cup
           {Req(nextAction + 1, "POST", formActivity, formEmail)}
    /\ UNCHANGED <<serverVars, pageVars, formVars, msgVars, console>>

\* Bug variant: the reload is issued together with the signup request.
SubmitWithEagerReload ==
    /\ nextAction < MaxSubmits
    /\ nextAction' = nextAction + 1
    /\ IF formEmail = "" \/ formActivity = ""
       THEN LET m == showMessage(messageDiv, timers,
                                 "Please fill in all fields", "error")
            IN  /\ messageDiv' = m.div
                /\ timers' = m.timers
                /\ UNCHANGED requests
       ELSE /\ requests' = requests \cup
                   {Req(nextAction + 1, "POST", formActivity, formEmail),
                    fetchActivities(nextAction + 1)}
            /\ UNCHANGED msgVars
    /\ UNCHANGED <<serverVars, pageVars, formVars, console>>

\* The submit handler up to its first await.
Submit ==
    /\ nextAction < MaxSubmits
    /\ nextAction' = nextAction + 1
    /\ IF formEmail = "" \/ formActivity = ""
       THEN LET m == showMessage(messageDiv, timers,
                                 "Please fill in all fields", "error")
            IN  /\ messageDiv' = m.div
                /\ timers' = m.timers
                /\ UNCHANGED requests
       ELSE /\ requests' = requests \cup
                   {Req(nextAction + 1, "POST", formActivity, formEmail)}
            /\ UNCHANGED msgVars
    /\ UNCHANGED <<serverVars, pageVars, formVars, console>>

----------------------------------------------------------------------------
\* Activity Directory

\* List activities: the full mapping.
ServerList(r) ==
    /\ r.kind = "GET" /\ r.pc = "sent"
    /\ requests' = (requests \ {r}) \cup {Respond(r, 200, participants)}
    /\ UNCHANGED <<serverVars, nextAction, pageVars, formVars, msgVars, console>>

\* Sign up, first half: the two checks.
ServerSignupCheck(r) ==
    /\ r.kind = "POST" /\ r.pc = "sent"
    /\ requests' = (requests \ {r}) \cup
          {IF r.activity \notin NameSet
              THEN Respond(r, 404, Seeded)
           ELSE IF Count(r.email, participants[r.activity]) > 0
              THEN Respond(r, 400, Seeded)
           ELSE [r EXCEPT !.pc = "checked"]}
    /\ UNCHANGED <<serverVars, nextAction, pageVars, formVars, msgVars, console>>

\* Sign up, second half: the append and the confirmation.
ServerSignupAppend(r) ==
    /\ r.kind = "POST" /\ r.pc = "checked"
    /\ participants' = [participants EXCEPT
                            ![r.activity] = Append(@, r.email)]
    /\ requests' = (requests \ {r}) \cup {Respond(r, 200, Seeded)}
    /\ UNCHANGED <<nextAction, pageVars, formVars, msgVars, console>>

----------------------------------------------------------------------------
\* Responses

\* Bodies of an answer that is not the directory's: unparsable (whatever the
\* status), or with a non-2xx status an error object with a detail or an
\* object without one.
ErrorBodies == {"garbage", "detail", "nodetail"}

ResponseOk(status) == status >= 200 /\ status <= 299

Detail(status) ==
    CASE status = 404 -> "Activity not found"
      [] status = 400 -> "Student is already signed up"
      [] OTHER        -> "Internal Server Error"

----------------------------------------------------------------------------
\* fetchActivities

FetchErrorLog == "Error fetching activities:"

\* Bug variant: the failure paragraph is appended to what the list shows.
loadFailedAppended(list) == Append(list, FailedP)

\* The catch block of fetchActivities: innerHTML is the failure paragraph.
loadFailed(list) == <<FailedP>>

FetchActivitiesCatch(r, list) ==
    /\ listView' = loadFailed(list)
    /\ console' = console \cup {FetchErrorLog}
    /\ requests' = requests \ {r}
    /\ UNCHANGED <<serverVars, nextAction, formVars, msgVars>>

\* `await fetch("/activities")` rejects: the request or its response is lost.
LoadNetworkError(r) ==
    /\ r.kind = "GET" /\ r.pc \in {"sent", "answered"}
    /\ FetchActivitiesCatch(r, listView)
    /\ UNCHANGED <<activities, options>>

\* The try block of fetchActivities on an error answer.
\*   garbage : json() throws, nothing was assigned
\*   detail  : {detail: "..."}: the list is cleared, the first entry throws
\*             on details.participants.length before anything is appended
\*   nodetail: {}: the list is cleared, there is no entry
LoadErrorResponse(r, body) ==
    /\ r.kind = "GET" /\ r.pc = "sent"
    /\ CASE body = "garbage" ->
              /\ FetchActivitiesCatch(r, listView)
              /\ UNCHANGED <<activities, options>>
         [] body = "detail" ->
              /\ FetchActivitiesCatch(r, <<>>)
              /\ activities' = [kind |-> "error", snap |-> Seeded]
              /\ UNCHANGED options
         [] OTHER ->
              /\ activities' = [kind |-> "empty", snap |-> Seeded]
              /\ listView' = <<>>
              /\ requests' = requests \ {r}
              /\ UNCHANGED <<serverVars, nextAction, options, formVars,
                             msgVars, console>>

\* The try block of fetchActivities on the directory's snapshot.
LoadBody(r) ==
    /\ r.kind = "GET" /\ r.pc = "answered"
    /\ LET view == renderActivities(listView, options, r.snap)
       IN  /\ activities' = [kind |-> "snapshot", snap |-> r.snap]
           /\ listView' = view.list
           /\ options' = view.select
    /\ requests' = requests \ {r}
    /\ UNCHANGED <<serverVars, nextAction, formVars, msgVars, console>>

----------------------------------------------------------------------------
\* Submit handler after its awaits

SignupErrorLog == "Error signing up:"

\* The catch block of the submit handler.
SignupCatch(r) ==
    LET m == showMessage(messageDiv, timers,
                         "Failed to sign up. Please try again.", "error")
    IN  /\ messageDiv' = m.div
        /\ timers' = m.timers
        /\ console' = console \cup {SignupErrorLog}
        /\ requests' = requests \ {r}
        /\ UNCHANGED <<serverVars, nextAction, pageVars, formVars>>

\* `await fetch(...signup...)` rejects: the request or its response is lost.
SignupNetworkError(r) ==
    /\ r.kind = "POST" /\ r.pc \in {"sent", "answered"}
    /\ SignupCatch(r)

\* Bug variant: the list is patched from the submitted values, no reload.
SignupSucceededLocalUpdate(r) ==
    LET m == showAgain(showMessage(messageDiv, timers,
                                   "Successfully signed up!", "success"))
    IN  /\ messageDiv' = m.div
        /\ timers' = m.timers
        /\ formEmail' = ""
        /\ formActivity' = ""
        /\ listView' = [i \in DOMAIN listView |->
                           IF listView[i].name = r.activity
                              THEN [listView[i] EXCEPT
                                       !.participants = Append(@, r.email)]
                              ELSE listView[i]]
        /\ requests' = requests \ {r}
        /\ UNCHANGED <<serverVars, nextAction, activities, options, console>>

\* if (response.ok) branch, then the lines after the if/else.
SignupSucceeded(r) ==
    LET m == showAgain(showMessage(messageDiv, timers,
                                   "Successfully signed up!", "success"))
    IN  /\ messageDiv' = m.div
        /\ timers' = m.timers
        /\ formEmail' = ""
        /\ formActivity' = ""
        /\ requests' = (requests \ {r}) \cup {fetchActivities(r.origin)}
        /\ UNCHANGED <<serverVars, nextAction, pageVars, console>>

\* Bug variant: the form is reset on a rejected signup too.
SignupRejectedResets(r, status, body) ==
    LET text == IF body = "detail" THEN Detail(status) ELSE "An error occurred"
        m == showAgain(showMessage(messageDiv, timers, text, "error"))
    IN  /\ messageDiv' = m.div
        /\ timers' = m.timers
        /\ formEmail' = ""
        /\ formActivity' = ""
        /\ requests' = requests \ {r}
        /\ UNCHANGED <<serverVars, nextAction, pageVars, console>>

\* else branch, then the lines after the if/else.
SignupRejected(r, status, body) ==
    LET text == IF body = "detail" THEN Detail(status) ELSE "An error occurred"
        m == showAgain(showMessage(messageDiv, timers, text, "error"))
    IN  /\ messageDiv' = m.div
        /\ timers' = m.timers
        /\ requests' = requests \ {r}
        /\ UNCHANGED <<serverVars, nextAction, pageVars, formVars, console>>

\* The try block of the submit handler on an error answer.
SignupErrorResponse(r, body) ==
    /\ r.kind = "POST" /\ r.pc = "sent"
    /\ IF body = "garbage" THEN SignupCatch(r)
       ELSE SignupRejected(r, 500, body)

\* The try block of the submit handler on the directory's answer.
SignupBody(r) ==
    /\ r.kind = "POST" /\ r.pc = "answered"
    /\ IF ResponseOk(r.status) THEN SignupSucceeded(r)
       ELSE SignupRejected(r, r.status, "detail")

----------------------------------------------------------------------------
\* Timers

\* Bug variant: the callback does not add the "hidden" class.
TimerFireKeepsVisible ==
    /\ timers # <<>>
    /\ timers' = IF Head(timers).left > 1
                    THEN [timers EXCEPT ![1].left = @ - 1]
                    ELSE Tail(timers)
    /\ UNCHANGED <<serverVars, requests, nextAction, pageVars, formVars,
                   messageDiv, console>>

\* A callback of the oldest timer runs: classList.add("hidden").
TimerFire ==
    /\ timers # <<>>
    /\ messageDiv' = [messageDiv EXCEPT !.hidden = TRUE]
    /\ timers' = IF Head(timers).left > 1
                    THEN [timers EXCEPT ![1].left = @ - 1]
                    ELSE Tail(timers)
    /\ UNCHANGED <<serverVars, requests, nextAction, pageVars, formVars, console>>

----------------------------------------------------------------------------
Next ==
    \/ \E e \in Emails \cup {""} : TypeEmail(e)
    \/ \E a \in NameSet \cup {""} : SelectActivity(a)
    \/ Submit
    \/ \E r \in requests : ServerList(r)
    \/ \E r \in requests : ServerSignupCheck(r)
    \/ \E r \in requests : ServerSignupAppend(r)
    \/ \E r \in requests : LoadNetworkError(r)
    \/ \E r \in requests, b \in ErrorBodies : LoadErrorResponse(r, b)
    \/ \E r \in requests : LoadBody(r)
    \/ \E r \in requests : SignupNetworkError(r)
    \/ \E r \in requests, b \in ErrorBodies : SignupErrorResponse(r, b)
    \/ \E r \in requests : SignupBody(r)
    \/ TimerFire

Spec == Init /\ [][Next]_vars

\* An expired timer's callback runs.
FairSpec == Spec /\ WF_vars(TimerFire)

----------------------------------------------------------------------------
\* Properties

Visible == ~messageDiv.hidden

ShowsCardsOf(list, snap) ==
    /\ Len(list) = Len(ActivityNames)
    /\ \A n \in NameSet : Count(Card(n, snap[n]), list) = 1

\* C1: once a snapshot has been rendered, the activity select holds exactly
\* one option per activity name, however many loads have been rendered.
SelectHasOneOptionPerName ==
    activities.kind = "snapshot" =>
        /\ Len(options) = Len(ActivityNames)
        /\ \A n \in NameSet : Count(n, options) = 1

\* C2: while the timer of the newest message has not expired, the message
\* area is visible: no earlier timer hides the newest message.
NewestMessageStaysVisible ==
    (timers # <<>> /\ timers[Len(timers)].left = timers[Len(timers)].set)
        => Visible

\* C3: no email appears twice in the participant list of an activity.
NoDuplicateParticipant ==
    \A n \in NameSet : \A e \in Emails : Count(e, participants[n]) <= 1

\* C4: a submit with an empty email or no selected activity shows the
\* validation error and issues no request.
ValidationAbortsBeforeNetwork ==
    [][(nextAction' # nextAction /\ (formEmail = "" \/ formActivity = ""))
          => /\ requests' = requests
             /\ messageDiv' = [textContent |-> "Please fill in all fields",
                               className |-> "error", hidden |-> FALSE]]_vars

ValidationAborted ==
    /\ nextAction = 1
    /\ Visible
    /\ messageDiv.textContent = "Please fill in all fields"
    /\ \A r \in requests : r.origin = 0

\* C5: the handler of a signup answered with a 2xx status shows the success
\* message, resets the form and issues the reload of the list; the list view
\* and the select are left as they are until that reload is rendered.
SuccessResetsAndReloads ==
    [][\A r \in requests :
          (SignupBody(r) /\ ResponseOk(r.status))
             => /\ messageDiv' = [textContent |-> "Successfully signed up!",
                                  className |-> "success", hidden |-> FALSE]
                /\ formEmail' = "" /\ formActivity' = ""
                /\ requests' = (requests \ {r}) \cup
                      {[origin |-> r.origin, kind |-> "GET", pc |-> "sent",
                        activity |-> "", email |-> "", status |-> 0,
                        snap |-> Seeded]}
                /\ UNCHANGED pageVars]_vars

SignupSuccessHandled ==
    /\ Visible
    /\ messageDiv.className = "success"
    /\ formEmail = "" /\ formActivity = ""
    /\ \E r \in requests : r.kind = "GET" /\ r.origin > 0 /\ r.pc = "sent"
    /\ \E n \in NameSet :
          /\ participants[n] # <<>>
          /\ Count(Card(n, <<>>), listView) = 1

SignupFails(r) ==
    \/ SignupNetworkError(r)
    \/ \E b \in ErrorBodies : SignupErrorResponse(r, b)
    \/ SignupBody(r) /\ ~ResponseOk(r.status)

\* C6: the handler of a failed signup (non-2xx answer, lost request or
\* response, unparsable body) shows an error message: the detail of the
\* answer when it has one, a generic text otherwise; it leaves the form
\* fields, the list view and the select as they are and issues no request.
FailureKeepsFormAndList ==
    [][\A r \in requests :
          SignupFails(r)
             => /\ messageDiv'.className = "error"
                /\ ~messageDiv'.hidden
                /\ messageDiv'.textContent \in
                      {"Student is already signed up", "Activity not found",
                       "Internal Server Error", "An error occurred",
                       "Failed to sign up. Please try again."}
                /\ (SignupBody(r) /\ r.status = 400)
                      => messageDiv'.textContent = "Student is already signed up"
                /\ SignupErrorResponse(r, "nodetail")
                      => messageDiv'.textContent = "An error occurred"
                /\ UNCHANGED formVars
                /\ UNCHANGED pageVars
                /\ requests' = requests \ {r}]_vars

SignupFailureHandled ==
    /\ Visible
    /\ messageDiv.textContent = "Student is already signed up"
    /\ formEmail # "" /\ formActivity # ""
    /\ \A r \in requests : r.kind = "GET"

LoadFails(r) ==
    \/ LoadNetworkError(r)
    \/ LoadErrorResponse(r, "garbage")
    \/ LoadErrorResponse(r, "detail")

\* C7: a load that fails leaves the list view showing only the failure
\* message and logs the error, and no request is issued for it; a request is
\* only ever issued by a submit or as the reload of an answered signup.
LoadFailureShownNotRetried ==
    [][/\ \A r \in requests :
             LoadFails(r) => /\ listView' = <<FailedP>>
                             /\ FetchErrorLog \in console'
                             /\ requests' = requests \ {r}
       /\ \A q \in requests' \ requests :
             q.pc = "sent" =>
                \/ nextAction' = nextAction + 1 /\ q.origin = nextAction'
                \/ \E r \in requests \ requests' :
                      r.kind = "POST" /\ r.origin = q.origin /\ q.kind = "GET"]_vars

LoadFailureHandled ==
    /\ listView = <<FailedP>>
    /\ FetchErrorLog \in console
    /\ options # <<>>
    /\ requests = {}

\* C8: every shown message is eventually hidden (at every moment the message
\* area is hidden or will be hidden later); it is hidden whenever no hide
\* timer is pending, and it only becomes visible in a step that sets a hide
\* timer: once no further message is shown it becomes and stays hidden.
MessageEventuallyHidden ==
    /\ []<>~Visible
    /\ [](timers = <<>> => ~Visible)
    /\ [][(~Visible /\ Visible') => Len(timers') = Len(timers) + 1]_vars

MessageHiddenAgain ==
    /\ ~Visible
    /\ messageDiv.textContent = "Please fill in all fields"
    /\ timers = <<>>

\* C9: a load that renders the directory's snapshot leaves the list view with
\* exactly one card per activity of that snapshot and nothing else, whatever
\* it showed before and whatever other loads are in flight.
RenderShowsExactlySnapshot ==
    [][\A r \in requests : LoadBody(r) => ShowsCardsOf(listView', r.snap)]_vars

StaleLoadInFlightAfterRender ==
    /\ activities.kind = "snapshot"
    /\ ShowsCardsOf(listView, activities.snap)
    /\ activities.snap # Seeded
    /\ \E r \in requests :
          r.kind = "GET" /\ r.pc = "answered" /\ r.snap # activities.snap

\* C10: the requests of one user action (page start is action 0, the k-th
\* submit action k) are never outstanding together, and page start issues
\* only the list GET.
OneOutstandingPerAction ==
    /\ \A o \in 0..MaxSubmits :
          Cardinality({r \in requests : r.origin = o}) <= 1
    /\ \A r \in requests : r.origin = 0 => r.kind = "GET"

ActionsOverlap ==
    \E r1 \in requests, r2 \in requests :
        /\ r1.origin # r2.origin
        /\ r1.kind = "GET" /\ r1.origin > 0
        /\ r2.kind = "POST"

====
